---- MODULE Spec2Model ----
(***************************************************************************)
(* A model of the takeout_fixer pipeline scripts:                          *)
(*   scripts/process_photos.py, scripts/recover_from_json.py and           *)
(*   scripts/organize_by_year_month.py.                                    *)
(*                                                                         *)
(* Text is modelled as a sequence of one-character strings, so that the    *)
(* formatting and parsing code (split, replace, ljust, the regular         *)
(* expressions, the "(k)" suffixes) is computed character by character.    *)
(* A path is a record [dir, stem, ext]: dir is the sequence of directory  *)
(* names and ext holds the leading dot and no other dot, so Path.stem,     *)
(* Path.suffix and os.path.splitext are the record fields.  The file       *)
(* system is a function from the existing paths to file identities (no     *)
(* hard links, case-sensitive names).                                      *)
(***************************************************************************)
EXTENDS Integers, Sequences, FiniteSets, TLC

VARIABLES
  script,               \* which script this behaviour runs
  pc,                   \* position of the script: start, loop, sidecars, done; crashed: ended by
                        \* an uncaught file-system error; index_error: ended by an IndexError
  run,                  \* number of the current invocation of the script (1, 2, ...)
  fs,                   \* the file system: existing path |-> file identity
  meta,                 \* file identity |-> what the external tools answer for its content
  media_file_paths,     \* the list built by the scan
  media_file_ids,       \* history: the identities of the files of media_file_paths
  idx,                  \* index of the next element of the list being walked
  matched_log,          \* logs/matched.txt
  unmatched_log,        \* logs/unmatched.txt
  error_log,            \* logs/process_errors.txt, organize_log.txt, recovered_log.txt
  json_file_paths,      \* recover_from_json: the candidate sidecars, in scan order
  used_json_file_paths, \* recover_from_json: the set of sidecars that were used
  matched_json,         \* history: the sidecars the matcher returned for some media file
  moves,                \* history: every rename/move performed in this run, in order
  prev,                 \* history: what the previous run of the script left
  cfg,                  \* start-up model: environment, arguments and directories
  call,                 \* pure-function specifications: the input drawn
  ret                   \* pure-function specifications: the value returned

vars == <<script, pc, run, fs, meta, media_file_paths, media_file_ids, idx,
          matched_log, unmatched_log, error_log, json_file_paths,
          used_json_file_paths, matched_json, moves, prev, cfg, call, ret>>

(***************************************************************************)
(* Bounds of the model.                                                    *)
(***************************************************************************)
MaxFiles == 3     \* media files in the initial tree
MaxRuns == 2      \* invocations of process_photos on the same tree
MaxMedia == 2     \* media files in the initial tree of recover_from_json
MaxSidecars == 2  \* sidecar files in the initial tree of recover_from_json
MaxOrganize == 2  \* media files in the initial tree of organize_by_year_month
MaxSuffix == 2    \* highest "(k)" name that exists before the allocator is called

(***************************************************************************)
(* Text helpers.                                                           *)
(***************************************************************************)
Digits == {"0", "1", "2", "3", "4", "5", "6", "7", "8", "9"}

DigitChar(d) == <<"0", "1", "2", "3", "4", "5", "6", "7", "8", "9">>[d + 1]

RECURSIVE Itoa(_)
\* str(index) inside f"{base_name}({index}){extension}"
Itoa(k) == IF k < 10 THEN <<DigitChar(k)>>
           ELSE Itoa(k \div 10) \o <<DigitChar(k % 10)>>

UpperLetters == <<"A", "B", "C", "D", "E", "F", "G", "H", "I", "J", "K", "L", "M",
                  "N", "O", "P", "Q", "R", "S", "T", "U", "V", "W", "X", "Y", "Z">>
LowerLetters == <<"a", "b", "c", "d", "e", "f", "g", "h", "i", "j", "k", "l", "m",
                  "n", "o", "p", "q", "r", "s", "t", "u", "v", "w", "x", "y", "z">>

LowerChar(c) == IF \E i \in 1..26 : UpperLetters[i] = c
                THEN LowerLetters[CHOOSE i \in 1..26 : UpperLetters[i] = c]
                ELSE c

\* str.lower()
Lower(s) == [i \in 1..Len(s) |-> LowerChar(s[i])]

\* str.replace(a, b) for one-character a and b
Replace(s, a, b) == [i \in 1..Len(s) |-> IF s[i] = a THEN b ELSE s[i]]

\* str.strip(), for the blank character
Strip(s) ==
  LET nonblank == {i \in 1..Len(s) : s[i] # " "} IN
  IF nonblank = {} THEN <<>>
  ELSE LET lo == CHOOSE i \in nonblank : \A j \in nonblank : i <= j
           hi == CHOOSE i \in nonblank : \A j \in nonblank : i >= j
       IN SubSeq(s, lo, hi)

\* s[:2].ljust(2, "0")
FirstTwoPadded(s) ==
  LET two == SubSeq(s, 1, IF Len(s) < 2 THEN Len(s) ELSE 2) IN
  IF Len(two) = 2 THEN two
  ELSE IF Len(two) = 1 THEN two \o <<"0">>
  ELSE <<"0", "0">>

\* needle in haystack
Contains(needle, hay) ==
  \E i \in 1..(Len(hay) - Len(needle) + 1) :
     SubSeq(hay, i, i + Len(needle) - 1) = needle

\* s.endswith(t)
EndsWith(s, t) == Len(s) >= Len(t) /\ SubSeq(s, Len(s) - Len(t) + 1, Len(s)) = t

\* n ASCII digits of s start at position i
DigitsAt(s, i, n) == i + n - 1 <= Len(s) /\ \A j \in i..(i + n - 1) : s[j] \in Digits

\* the position after an optional character of seps at position i (a greedy "[..]?":
\* the characters of seps are no digits, so giving the character back never helps
\* the digits that follow to match)
AfterOptional(s, i, seps) == IF i <= Len(s) /\ s[i] \in seps THEN i + 1 ELSE i

(***************************************************************************)
(* Paths and the file system.                                              *)
(***************************************************************************)
MkPath(d, stem, ext) == [dir |-> d, stem |-> stem, ext |-> ext]

\* None where a path is expected
NoPath == MkPath(<<>>, <<>>, <<>>)

\* Path.name
NameOf(p) == p.stem \o p.ext

\* Path.exists()
Exists(fsys, p) == p \in DOMAIN fsys

\* Path.samefile(): both paths name the same file
SameFile(fsys, p, q) == Exists(fsys, p) /\ Exists(fsys, q) /\ fsys[p] = fsys[q]

\* Path.rename / os.rename / os.replace / shutil.move, when it succeeds: the source
\* entry goes away and the destination names the file, replacing what it named
Renamed(fsys, src, dst) ==
  [p \in (DOMAIN fsys \ {src}) \cup {dst} |-> IF p = dst THEN fsys[src] ELSE fsys[p]]

\* the file identities present in a file system
FilesOf(fsys) == {fsys[p] : p \in DOMAIN fsys}

(***************************************************************************)
(* process_photos.py: the timestamp resolver.                              *)
(***************************************************************************)
\* What the metadata tool answers for a file: the call fails, or prints lines
ToolAnswer(fail, lines) == [exif_fail |-> fail, exif_lines |-> lines]

\* extract_exif_create_date: (create date, sub-second), both empty for (None, None);
\* failed says that the except branch ran and logged "EXIF read failed"
extract_exif_create_date(answer) ==
  IF answer.exif_fail
  THEN [date |-> <<>>, sub |-> <<>>, failed |-> TRUE]
  ELSE LET output == answer.exif_lines IN
       IF output = <<>>
       THEN [date |-> <<>>, sub |-> <<>>, failed |-> FALSE]
       ELSE [date |-> Strip(output[1]),
             sub |-> IF Len(output) > 1 THEN Strip(output[2]) ELSE <<>>,
             failed |-> FALSE]

DateSeparators == {"-", ".", "_"}
TimeSeparators == {"_", "-"}

FilenameYearMutant(s) == DigitsAt(s, 1, 4) /\ s[1] = "2" /\ s[2] = "0"

\* the leading ([0-9]{4}) of FILENAME_DATE_REGEX, anchored at the start of the name
FilenameYear(s) == DigitsAt(s, 1, 4)

\* FILENAME_DATE_REGEX.match(s): <<year, month, day, timepart>>, or <<>> for no match;
\* timepart is <<>> when the optional group did not take part
FILENAME_DATE_REGEX(s) ==
  IF ~FilenameYear(s) THEN <<>>
  ELSE LET m0 == AfterOptional(s, 5, DateSeparators) IN
       IF ~DigitsAt(s, m0, 2) THEN <<>>
       ELSE LET d0 == AfterOptional(s, m0 + 2, DateSeparators) IN
            IF ~DigitsAt(s, d0, 2) THEN <<>>
            ELSE LET t0 == AfterOptional(s, d0 + 2, TimeSeparators) IN
                 << SubSeq(s, 1, 4), SubSeq(s, m0, m0 + 1), SubSeq(s, d0, d0 + 1),
                    IF DigitsAt(s, t0, 6) THEN SubSeq(s, t0, t0 + 5) ELSE <<>> >>

\* parse_date_from_filename: <<year, month, day, hh, mm, ss>>, or <<>> for None
parse_date_from_filename(filename) ==
  LET m == FILENAME_DATE_REGEX(filename) IN
  IF m = <<>> THEN <<>>
  ELSE LET timepart == m[4] IN
       IF timepart # <<>>
       THEN <<m[1], m[2], m[3], SubSeq(timepart, 1, 2), SubSeq(timepart, 3, 4),
              SubSeq(timepart, 5, 6)>>
       ELSE <<m[1], m[2], m[3], <<"0", "0">>, <<"0", "0">>, <<"0", "0">> >>

SubSecondSuffixMutant(sub_second) ==
  IF sub_second # <<>> THEN <<"-">> \o SubSeq(sub_second, 1, IF Len(sub_second) < 2 THEN Len(sub_second) ELSE 2) ELSE <<>>

\* main, "if sub_second:" : the suffix added to the base name
SubSecondSuffix(sub_second) ==
  IF sub_second # <<>> THEN <<"-">> \o FirstTwoPadded(sub_second) ELSE <<>>

\* main, step 1: the base name from the EXIF create date.  name is <<>> when the
\* stage gives none; error says that "EXIF parse error" was logged
ExifBaseName(exif_create_date, sub_second) ==
  LET blanks == {i \in 1..Len(exif_create_date) : exif_create_date[i] = " "} IN
  IF exif_create_date = <<>> THEN [name |-> <<>>, error |-> FALSE]
  ELSE IF Cardinality(blanks) # 1 THEN [name |-> <<>>, error |-> TRUE]
  ELSE LET b == CHOOSE i \in blanks : TRUE
           date_string == Replace(SubSeq(exif_create_date, 1, b - 1), ":", "-")
           time_string == Replace(SubSeq(exif_create_date, b + 1, Len(exif_create_date)), ":", "-")
       IN [name |-> date_string \o <<"_">> \o time_string \o SubSecondSuffix(sub_second),
           error |-> FALSE]

\* main, step 2: the base name from the file's own name, <<>> when it does not parse
FilenameBaseName(file_stem) ==
  LET parsed == parse_date_from_filename(file_stem) IN
  IF parsed = <<>> THEN <<>>
  ELSE parsed[1] \o <<"-">> \o parsed[2] \o <<"-">> \o parsed[3] \o <<"_">>
       \o parsed[4] \o <<"-">> \o parsed[5] \o <<"-">> \o parsed[6]

\* main, steps 1 and 2, with a failed step 1 leaving the file unresolved at once
ResolveBaseName_mutant(file_stem, answer) ==
  LET exif == extract_exif_create_date(answer)
      fromExif == ExifBaseName(exif.date, exif.sub)
  IN [name |-> fromExif.name,
      stage |-> IF fromExif.name # <<>> THEN "exif" ELSE "none",
      errors |-> (IF exif.failed THEN <<"exif_read">> ELSE <<>>)
                 \o (IF fromExif.error THEN <<"exif_parse">> ELSE <<>>)]

\* main, steps 1 and 2 for one file: the new base name (<<>> when unresolved), the
\* stage that gave it and the error records the two stages logged on the way
ResolveBaseName(file_stem, answer) ==
  LET exif == extract_exif_create_date(answer)
      fromExif == ExifBaseName(exif.date, exif.sub)
      errors == (IF exif.failed THEN <<"exif_read">> ELSE <<>>)
                \o (IF fromExif.error THEN <<"exif_parse">> ELSE <<>>)
  IN IF fromExif.name # <<>>
     THEN [name |-> fromExif.name, stage |-> "exif", errors |-> errors]
     ELSE LET fromName == FilenameBaseName(file_stem) IN
          [name |-> fromName,
           stage |-> IF fromName # <<>> THEN "filename" ELSE "none",
           errors |-> errors]

(***************************************************************************)
(* process_photos.py: the unique path allocator.                           *)
(***************************************************************************)
\* f"{base_name}({index})"
Numbered(base_name, index) == base_name \o <<"(">> \o Itoa(index) \o <<")">>

FirstFree_mutant(fsys, destination_directory, base_name, extension, index) ==
  MkPath(destination_directory, Numbered(base_name, index), extension)

RECURSIVE FirstFree(_, _, _, _, _)
\* the "while True" loop of make_unique_path, from index on
FirstFree(fsys, destination_directory, base_name, extension, index) ==
  LET candidate == MkPath(destination_directory, Numbered(base_name, index), extension) IN
  IF ~Exists(fsys, candidate) THEN candidate
  ELSE FirstFree(fsys, destination_directory, base_name, extension, index + 1)

make_unique_path_mutant(fsys, destination_directory, base_name, extension, original_file_path) ==
  MkPath(destination_directory, base_name, extension)

\* make_unique_path of process_photos.py; original_file_path is NoPath for None
make_unique_path(fsys, destination_directory, base_name, extension, original_file_path) ==
  LET candidate == MkPath(destination_directory, base_name, extension) IN
  IF ~Exists(fsys, candidate)
     \/ (original_file_path # NoPath /\ SameFile(fsys, candidate, original_file_path))
  THEN candidate
  ELSE FirstFree(fsys, destination_directory, base_name, extension, 1)

(***************************************************************************)
(* process_photos.py: configuration and the run.                           *)
(***************************************************************************)
\* The directories of the modelled tree: TARGET_DIR itself, one album below it,
\* and the folders the scripts make
\* (a directory is the sequence of its components)
TARGET_DIR == << <<"t", "a", "r", "g", "e", "t">> >>
ALBUM_DIR == TARGET_DIR \o << <<"a", "l", "b", "u", "m">> >>
UNMATCHED_DIR == TARGET_DIR \o << <<"u", "n", "m", "a", "t", "c", "h", "e", "d">> >>
LOG_DIR == TARGET_DIR \o << <<"l", "o", "g", "s">> >>

MEDIA_EXTENSIONS == {
  <<".", "j", "p", "g">>,
  <<".", "j", "p", "e", "g">>,
  <<".", "p", "n", "g">>,
  <<".", "w", "e", "b", "p">>,
  <<".", "h", "e", "i", "c">>,
  <<".", "m", "p", "4">>,
  <<".", "m", "o", "v">>,
  <<".", "a", "v", "i">>,
  <<".", "3", "g", "p">>,
  <<".", "m", "p", "g">>,
  <<".", "m", "4", "v">>,
  <<".", "g", "i", "f">> }

\* Some texts of the modelled trees
Stamp_Exif == <<"2", "0", "2", "3", ":", "0", "5", ":", "0", "6", " ", "1", "2", ":", "3", "4", ":", "5", "6">>
Stamp_Name == <<"2", "0", "2", "3", "-", "0", "5", "-", "0", "6", "_", "1", "2", "-", "3", "4", "-", "5", "6">>
Name_Dated == <<"2", "0", "2", "2", "1", "1", "0", "3", "_", "1", "5", "3", "0", "0", "0">>
Name_1999 == <<"1", "9", "9", "9", "1", "2", "3", "1">>
Ext_jpg == <<".", "j", "p", "g">>
Ext_JPG == <<".", "J", "P", "G">>
Ext_png == <<".", "p", "n", "g">>
Ext_gif == <<".", "g", "i", "f">>
Ext_json == <<".", "j", "s", "o", "n">>

\* The media files a tree of process_photos is drawn from: a path and what the
\* metadata tool answers for the file
ProcessCatalogue == <<
  [path |-> MkPath(ALBUM_DIR, <<"a">>, Ext_jpg), answer |-> ToolAnswer(FALSE, <<Stamp_Exif>>)],
  [path |-> MkPath(ALBUM_DIR, <<"b">>, Ext_JPG), answer |-> ToolAnswer(FALSE, <<Stamp_Exif>>)],
  [path |-> MkPath(ALBUM_DIR, Stamp_Name, Ext_jpg), answer |-> ToolAnswer(FALSE, <<Stamp_Exif>>)],
  [path |-> MkPath(ALBUM_DIR, Name_Dated, Ext_jpg), answer |-> ToolAnswer(FALSE, <<>>)],
  [path |-> MkPath(ALBUM_DIR, Name_1999, Ext_jpg), answer |-> ToolAnswer(TRUE, <<>>)],
  [path |-> MkPath(ALBUM_DIR, <<"x">>, Ext_png), answer |-> ToolAnswer(TRUE, <<>>)],
  [path |-> MkPath(TARGET_DIR, <<"x">>, Ext_png), answer |-> ToolAnswer(FALSE, <<>>)] >>

\* The trees: at most n files of a catalogue, under distinct paths
Trees(catalogue, n) ==
  {S \in SUBSET (1..Len(catalogue)) :
     /\ Cardinality(S) <= n
     /\ \A i, j \in S : catalogue[i].path = catalogue[j].path => i = j}

TreeFs(catalogue, S) ==
  [p \in {catalogue[i].path : i \in S} |->
     CHOOSE i \in S : catalogue[i].path = p]

\* the orders in which os.walk may list the paths of P: top-down, so the files of
\* TARGET_DIR come before those of the directories below it; within one directory
\* the order is the file system's
WalkOrders(P) ==
  {o \in [1..Cardinality(P) -> P] :
     /\ \A i, j \in 1..Cardinality(P) : o[i] = o[j] => i = j
     /\ \A i, j \in 1..Cardinality(P) :
          (o[i].dir = TARGET_DIR /\ o[j].dir # TARGET_DIR) => i < j}

\* list_media_file_paths: the paths the scan keeps
ListedMediaPaths(fsys) ==
  {p \in DOMAIN fsys :
     /\ p.dir \notin {UNMATCHED_DIR, LOG_DIR}
     /\ Lower(p.ext) \in MEDIA_EXTENSIONS}

log_matched_mutant(log, record) == log

\* log_matched: append one line to matched.txt
log_matched(log, record) == Append(log, record)

log_unmatched_mutant(log, record) == log

\* log_unmatched: append one line to unmatched.txt
log_unmatched(log, record) == Append(log, record)

\* log_error: append one line to process_errors.txt
log_error(log, record) == Append(log, record)

\* One log record; id is the identity of the file the record is about
Record(id, kind, old, new) == [id |-> id, kind |-> kind, old |-> old, new |-> new]

\* The records of the error stages of one file
ErrorRecords(id, filename, kinds) ==
  [i \in 1..Len(kinds) |-> Record(id, kinds[i], filename, <<>>)]

\* One entry of the history of moves: the file moved, from where to where, the base
\* name asked of the allocator, and the identity of the file the destination named
\* before the move (0: none)
Move(fsys, src, dst, base_name) ==
  [id |-> fsys[src], src |-> src, dst |-> dst, base |-> base_name,
   over |-> IF Exists(fsys, dst) /\ dst # src THEN fsys[dst] ELSE 0]

\* Module start-up (mkdir of unmatched and logs, truncation of the three logs) and
\* the scan at the head of main; an empty scan returns at once
ProcessPhotosStart ==
  /\ script = "process_photos" /\ pc = "start"
  /\ \E order \in WalkOrders(ListedMediaPaths(fs)) :
       /\ media_file_paths' = order
       /\ media_file_ids' = [i \in 1..Len(order) |-> fs[order[i]]]
       /\ pc' = IF order = <<>> THEN "done" ELSE "loop"
  /\ idx' = 1
  /\ matched_log' = <<>> /\ unmatched_log' = <<>> /\ error_log' = <<>>
  /\ UNCHANGED <<script, run, fs, meta, json_file_paths, used_json_file_paths,
                 matched_json, moves, prev, cfg, call, ret>>

\* One iteration of the loop of main.  probe_ok and rename_ok say whether the file
\* system lets the allocator's exists()/samefile() and the rename go through; an
\* exception outside a try block ends the script with a traceback ("crashed")
ProcessPhotosFile ==
  /\ script = "process_photos" /\ pc = "loop" /\ idx <= Len(media_file_paths)
  /\ \E probe_ok, rename_ok \in BOOLEAN :
       LET media_file_path == media_file_paths[idx]
           present == Exists(fs, media_file_path)
           id == IF present THEN fs[media_file_path] ELSE 0
           filename == NameOf(media_file_path)
           file_stem == media_file_path.stem
           file_extension == Lower(media_file_path.ext)
           r == ResolveBaseName(file_stem, IF present THEN meta[id] ELSE ToolAnswer(TRUE, <<>>))
           errors == error_log \o ErrorRecords(id, filename, r.errors)
       IN IF r.name = <<>>
          THEN LET new_file_path == make_unique_path(fs, UNMATCHED_DIR, file_stem,
                                                     file_extension, NoPath) IN
               IF ~probe_ok
               THEN /\ pc' = "crashed" /\ error_log' = errors
                    /\ UNCHANGED <<fs, idx, matched_log, unmatched_log, moves>>
               ELSE IF rename_ok /\ present
               THEN /\ fs' = Renamed(fs, media_file_path, new_file_path)
                    /\ moves' = Append(moves, Move(fs, media_file_path, new_file_path, file_stem))
                    /\ unmatched_log' = log_unmatched(unmatched_log,
                                               Record(id, "unmatched", filename, NameOf(new_file_path)))
                    /\ error_log' = errors
                    /\ idx' = idx + 1
                    /\ UNCHANGED <<pc, matched_log>>
               ELSE /\ error_log' = log_error(errors, Record(id, "move_unmatched", filename, <<>>))
                    /\ idx' = idx + 1
                    /\ UNCHANGED <<pc, fs, matched_log, unmatched_log, moves>>
          ELSE LET new_path == make_unique_path(fs, media_file_path.dir, r.name,
                                                file_extension, media_file_path) IN
               IF ~probe_ok
               THEN /\ pc' = "crashed" /\ error_log' = errors
                    /\ UNCHANGED <<fs, idx, matched_log, unmatched_log, moves>>
               ELSE IF new_path = media_file_path
               THEN /\ error_log' = errors
                    /\ idx' = idx + 1
                    /\ UNCHANGED <<pc, fs, matched_log, unmatched_log, moves>>
               ELSE IF rename_ok /\ present
               THEN /\ fs' = Renamed(fs, media_file_path, new_path)
                    /\ moves' = Append(moves, Move(fs, media_file_path, new_path, r.name))
                    /\ matched_log' = log_matched(matched_log,
                                             Record(id, "matched", filename, NameOf(new_path)))
                    /\ error_log' = errors
                    /\ idx' = idx + 1
                    /\ UNCHANGED <<pc, unmatched_log>>
               ELSE /\ pc' = "crashed" /\ error_log' = errors
                    /\ UNCHANGED <<fs, idx, matched_log, unmatched_log, moves>>
  /\ UNCHANGED <<script, run, meta, media_file_paths, media_file_ids, json_file_paths,
                 used_json_file_paths, matched_json, prev, cfg, call, ret>>

\* The loop of main is over: the summary lines are printed
ProcessPhotosFinish ==
  /\ script = "process_photos" /\ pc = "loop" /\ idx > Len(media_file_paths)
  /\ pc' = "done"
  /\ UNCHANGED <<script, run, fs, meta, media_file_paths, media_file_ids, idx,
                 matched_log, unmatched_log, error_log, json_file_paths,
                 used_json_file_paths, matched_json, moves, prev, cfg, call, ret>>

\* The user runs the script again on the tree the finished run left; prev keeps
\* what that run did
ProcessPhotosAgain ==
  /\ script = "process_photos" /\ pc = "done" /\ run < MaxRuns
  /\ run' = run + 1
  /\ pc' = "start"
  /\ prev' = [fs |-> fs, matched |-> {matched_log[i].id : i \in 1..Len(matched_log)}]
  /\ moves' = <<>>
  /\ UNCHANGED <<script, fs, meta, media_file_paths, media_file_ids, idx, matched_log,
                 unmatched_log, error_log, json_file_paths, used_json_file_paths,
                 matched_json, cfg, call, ret>>

NoConfig == [by_month |-> FALSE]
NoCall == [fn |-> "none"]

InitProcessPhotos ==
  /\ script = "process_photos" /\ pc = "start" /\ run = 1
  /\ \E S \in Trees(ProcessCatalogue, MaxFiles) : fs = TreeFs(ProcessCatalogue, S)
  /\ meta = [i \in 1..Len(ProcessCatalogue) |-> ProcessCatalogue[i].answer]
  /\ media_file_paths = <<>> /\ media_file_ids = <<>> /\ idx = 1
  /\ matched_log = <<>> /\ unmatched_log = <<>> /\ error_log = <<>>
  /\ json_file_paths = <<>> /\ used_json_file_paths = {} /\ matched_json = {}
  /\ moves = <<>>
  /\ prev = [fs |-> <<>>, matched |-> {}]
  /\ cfg = NoConfig /\ call = NoCall /\ ret = NoCall

NextProcessPhotos ==
  \/ ProcessPhotosStart
  \/ ProcessPhotosFile
  \/ ProcessPhotosFinish
  \/ ProcessPhotosAgain

SpecProcessPhotos == InitProcessPhotos /\ [][NextProcessPhotos]_vars

(***************************************************************************)
(* recover_from_json.py                                                    *)
(***************************************************************************)
DONE_DIRECTORY == TARGET_DIR \o << <<"d", "o", "n", "e">> >>

\* The characters of the modelled names in code-point order, as sorted() compares them
CodePointOrder == <<" ", "(", ")", "-", ".", "/", "0", "1", "2", "3", "4", "5", "6", "7", "8", "9", ":", "A", "B", "C", "D", "E", "F", "G", "H", "I", "J", "K", "L", "M", "N", "O", "P", "Q", "R", "S", "T", "U", "V", "W", "X", "Y", "Z", "_", "a", "b", "c", "d", "e", "f", "g", "h", "i", "j", "k", "l", "m", "n", "o", "p", "q", "r", "s", "t", "u", "v", "w", "x", "y", "z">>

Ord(c) == CHOOSE i \in 1..Len(CodePointOrder) : CodePointOrder[i] = c

RECURSIVE StrLess(_, _)
\* a < b for two texts
StrLess(a, b) ==
  IF b = <<>> THEN FALSE
  ELSE IF a = <<>> THEN TRUE
  ELSE IF a[1] # b[1] THEN Ord(a[1]) < Ord(b[1])
  ELSE StrLess(Tail(a), Tail(b))

RECURSIVE JoinDir(_)
JoinDir(d) == IF d = <<>> THEN <<>> ELSE JoinDir(SubSeq(d, 1, Len(d) - 1)) \o <<"/">> \o d[Len(d)]

\* os.path.join(root, filename): the text of a path
FullPath(p) == JoinDir(p.dir) \o <<"/">> \o NameOf(p)

\* sorted(used_json_file_paths)
SortedPaths(P) ==
  CHOOSE o \in [1..Cardinality(P) -> P] :
    /\ \A i, j \in 1..Cardinality(P) : o[i] = o[j] => i = j
    /\ \A i, j \in 1..Cardinality(P) : i < j => StrLess(FullPath(o[i]), FullPath(o[j]))

\* os.path.commonpath([root, DONE_DIRECTORY]) == DONE_DIRECTORY, and Path.is_relative_to
IsUnder(d, top) == Len(d) >= Len(top) /\ SubSeq(d, 1, Len(top)) = top

MIME_TYPE_TO_EXTENSION_MAP ==
  ("image/jpeg" :> <<"j", "p", "g">>) @@
  ("image/png" :> <<"p", "n", "g">>) @@
  ("image/webp" :> <<"w", "e", "b", "p">>) @@
  ("image/heic" :> <<"h", "e", "i", "c">>) @@
  ("image/gif" :> <<"g", "i", "f">>) @@
  ("video/mp4" :> <<"m", "p", "4">>) @@
  ("video/quicktime" :> <<"m", "o", "v">>) @@
  ("video/x-msvideo" :> <<"a", "v", "i">>) @@
  ("video/3gpp" :> <<"3", "g", "p">>) @@
  ("video/mpeg" :> <<"m", "p", "g">>) @@
  ("video/x-m4v" :> <<"m", "4", "v">>)

\* main, step 1: the extension the file should carry, without its dot
DesiredExtension(mime_type, original_extension) ==
  Lower(IF mime_type \in DOMAIN MIME_TYPE_TO_EXTENSION_MAP
        THEN MIME_TYPE_TO_EXTENSION_MAP[mime_type]
        ELSE original_extension)

\* find_all_media_file_paths
RecoverMediaPaths(fsys) ==
  {p \in DOMAIN fsys :
     /\ ~IsUnder(p.dir, DONE_DIRECTORY)
     /\ Lower(NameOf(p)) # <<".", "d", "s", "_", "s", "t", "o", "r", "e">>
     /\ ~EndsWith(Lower(NameOf(p)), <<".", "j", "s", "o", "n">>)
     /\ ~EndsWith(Lower(NameOf(p)), <<".", "t", "x", "t">>)
     /\ ~EndsWith(Lower(NameOf(p)), <<".", "m", "d">>)
     /\ Lower(p.ext) \in MEDIA_EXTENSIONS}

\* find_all_json_file_paths
RecoverJsonPaths(fsys) ==
  {p \in DOMAIN fsys :
     /\ ~IsUnder(p.dir, DONE_DIRECTORY)
     /\ EndsWith(Lower(NameOf(p)), <<".", "j", "s", "o", "n">>)}

RECURSIVE FirstHit(_, _)
\* next((candidate for candidate in json_file_paths if key in basename.lower()), None)
FirstHit(candidates, key) ==
  IF candidates = <<>> THEN NoPath
  ELSE IF Contains(key, Lower(NameOf(Head(candidates)))) THEN Head(candidates)
  ELSE FirstHit(Tail(candidates), key)

\* re.sub(r'\([^)]*\)$', '', base_name): the leftmost "(" after which no ")" comes
\* before the ")" that ends the name
StripTrailingParenthesis(base_name) ==
  LET n == Len(base_name)
      starts == {i \in 1..n : /\ base_name[i] = "("
                              /\ base_name[n] = ")"
                              /\ i < n
                              /\ \A j \in (i + 1)..(n - 1) : base_name[j] # ")"}
  IN IF starts = {} THEN base_name
     ELSE SubSeq(base_name, 1, (CHOOSE i \in starts : \A j \in starts : i <= j) - 1)

Suffix_edited == <<"-", "e", "d", "i", "t", "e", "d">>
Suffix_ani == <<"a", "n", "i">>

\* main, step 2, with the raw base name never tried: the stripped name decides first
MatchSidecar_mutant(media_file_path, candidates) ==
  FirstHit(candidates, StripTrailingParenthesis(Lower(media_file_path.stem)))

\* main, step 2: the sidecar matched to a media file, NoPath for None
MatchSidecar(media_file_path, candidates) ==
  LET base_name == Lower(media_file_path.stem)
      m1 == FirstHit(candidates, base_name)
      m2 == IF m1 = NoPath
            THEN FirstHit(candidates, StripTrailingParenthesis(base_name))
            ELSE m1
      m3 == IF m2 = NoPath /\ EndsWith(base_name, Suffix_edited)
            THEN FirstHit(candidates, SubSeq(base_name, 1, Len(base_name) - Len(Suffix_edited)))
            ELSE m2
      m4 == IF m3 = NoPath /\ Lower(media_file_path.ext) = Ext_gif /\ EndsWith(base_name, Suffix_ani)
            THEN FirstHit(candidates, SubSeq(base_name, 1, Len(base_name) - 1))
            ELSE m3
  IN m4

\* str.isdigit() of the text jq printed
IsDigit(timestamp) == timestamp # <<>> /\ \A i \in 1..Len(timestamp) : timestamp[i] \in Digits

\* What the external tools answer for a file of the recovery tree: file --mime-type
\* (mime_fail: it exits non-zero), jq (jq_fail: it exits non-zero; timestamp: what it
\* prints), and written: the epoch seconds whose date exiftool wrote into the file
RecoverAnswer(mime_fail, mime, jq_fail, timestamp) ==
  [mime_fail |-> mime_fail, mime |-> mime, jq_fail |-> jq_fail,
   timestamp |-> timestamp, written |-> <<>>]

Epoch == <<"1", "6", "8", "3", "3", "7", "6", "4", "9", "6">>
Null == <<"n", "u", "l", "l">>

\* The media files and the sidecars a tree of recover_from_json is drawn from
RecoverMedia == <<
  [path |-> MkPath(ALBUM_DIR, <<"i", "m", "g", "1">>, Ext_jpg), answer |-> RecoverAnswer(FALSE, "image/jpeg", FALSE, <<>>)],
  [path |-> MkPath(ALBUM_DIR, <<"i", "m", "g", "1", "(", "1", ")">>, Ext_JPG), answer |-> RecoverAnswer(FALSE, "image/jpeg", FALSE, <<>>)],
  [path |-> MkPath(ALBUM_DIR, <<"p", "i", "c">>, Ext_png), answer |-> RecoverAnswer(FALSE, "image/jpeg", FALSE, <<>>)],
  [path |-> MkPath(ALBUM_DIR, <<"p", "i", "c">>, Ext_jpg), answer |-> RecoverAnswer(FALSE, "application/octet-stream", FALSE, <<>>)],
  [path |-> MkPath(TARGET_DIR, <<"c", "l", "i", "p", "-", "e", "d", "i", "t", "e", "d">>, Ext_jpg), answer |-> RecoverAnswer(TRUE, "", FALSE, <<>>)],
  [path |-> MkPath(ALBUM_DIR, <<"c", "l", "i", "p", "-", "e", "d", "i", "t", "e", "d">>, Ext_jpg), answer |-> RecoverAnswer(FALSE, "image/jpeg", FALSE, <<>>)],
  [path |-> MkPath(ALBUM_DIR, <<"f", "u", "n", "a", "n", "i">>, Ext_gif), answer |-> RecoverAnswer(FALSE, "image/gif", FALSE, <<>>)] >>

RecoverSidecars == <<
  [path |-> MkPath(ALBUM_DIR, <<"i", "m", "g", "1", ".", "j", "p", "g">>, Ext_json), answer |-> RecoverAnswer(FALSE, "application/json", FALSE, Epoch)],
  [path |-> MkPath(ALBUM_DIR, <<"p", "i", "c", ".", "p", "n", "g">>, Ext_json), answer |-> RecoverAnswer(FALSE, "application/json", FALSE, Null)],
  [path |-> MkPath(ALBUM_DIR, <<"c", "l", "i", "p">>, Ext_json), answer |-> RecoverAnswer(FALSE, "application/json", FALSE, Epoch)],
  [path |-> MkPath(TARGET_DIR, <<"f", "u", "n", "a", "n">>, Ext_json), answer |-> RecoverAnswer(FALSE, "application/json", TRUE, <<>>)],
  [path |-> MkPath(TARGET_DIR, <<"I", "M", "G", "1", "(", "1", ")", ".", "J", "P", "G">>, Ext_json), answer |-> RecoverAnswer(FALSE, "application/json", FALSE, Epoch)],
  [path |-> MkPath(DONE_DIRECTORY, <<"i", "m", "g", "1", ".", "j", "p", "g">>, Ext_json), answer |-> RecoverAnswer(FALSE, "application/json", FALSE, Epoch)] >>

\* Module start-up (makedirs of done and logs, truncation of the log) and the two scans
\* at the head of main; an empty media scan returns at once
RecoverStart ==
  /\ script = "recover_from_json" /\ pc = "start"
  /\ \E order \in WalkOrders(RecoverMediaPaths(fs)) :
       /\ media_file_paths' = order
       /\ media_file_ids' = [i \in 1..Len(order) |-> fs[order[i]]]
       /\ pc' = IF order = <<>> THEN "done" ELSE "loop"
       /\ IF order = <<>>
          THEN json_file_paths' = <<>>
          ELSE \E jorder \in WalkOrders(RecoverJsonPaths(fs)) : json_file_paths' = jorder
  /\ idx' = 1
  /\ error_log' = <<>>
  /\ used_json_file_paths' = {} /\ matched_json' = {}
  /\ UNCHANGED <<script, run, fs, meta, matched_log, unmatched_log, moves, prev,
                 cfg, call, ret>>

\* One iteration of the loop of main over the media files
RecoverFile ==
  /\ script = "recover_from_json" /\ pc = "loop" /\ idx <= Len(media_file_paths)
  /\ \E rename_ok \in BOOLEAN :
       LET listed_path == media_file_paths[idx]
           present == Exists(fs, listed_path)
           id == IF present THEN fs[listed_path] ELSE 0
           \* for a path that is gone, file prints "cannot open" and exits with 0
           answer == IF present THEN meta[id]
                     ELSE RecoverAnswer(FALSE, "cannot open", FALSE, <<>>)
           original_extension == Lower(Tail(listed_path.ext))
           desired_extension == DesiredExtension(answer.mime, original_extension)
           correct == original_extension # desired_extension
           renamed_path == MkPath(listed_path.dir, listed_path.stem, <<".">> \o desired_extension)
           media_file_path == IF correct THEN renamed_path ELSE listed_path
           log1 == IF correct
                   THEN log_error(error_log, Record(id, "rename_extension", NameOf(listed_path), NameOf(renamed_path)))
                   ELSE error_log
           fs1 == IF correct THEN Renamed(fs, listed_path, renamed_path) ELSE fs
           moves1 == IF correct
                     THEN Append(moves, Move(fs, listed_path, renamed_path, listed_path.stem))
                     ELSE moves
           matched_json_path == MatchSidecar(media_file_path, json_file_paths)
           found == matched_json_path # NoPath /\ Exists(fs1, matched_json_path)
           sidecar == meta[fs1[matched_json_path]]
       IN IF answer.mime_fail
          THEN /\ error_log' = log_error(error_log, Record(id, "no_mime", NameOf(listed_path), <<>>))
               /\ idx' = idx + 1
               /\ UNCHANGED <<pc, fs, meta, used_json_file_paths, matched_json, moves>>
          ELSE IF correct /\ ~rename_ok
          THEN /\ pc' = "crashed" /\ error_log' = log1
               /\ UNCHANGED <<fs, meta, idx, used_json_file_paths, matched_json, moves>>
          ELSE /\ fs' = fs1 /\ moves' = moves1 /\ idx' = idx + 1 /\ pc' = pc
               /\ matched_json' = IF found THEN matched_json \cup {matched_json_path}
                                  ELSE matched_json
               /\ IF ~found
                  THEN /\ error_log' = log_error(log1, Record(id, "no_json", NameOf(media_file_path), <<>>))
                       /\ UNCHANGED <<meta, used_json_file_paths>>
                  ELSE IF sidecar.jq_fail
                  THEN /\ error_log' = log_error(log1, Record(id, "jq_failed", NameOf(matched_json_path), <<>>))
                       /\ UNCHANGED <<meta, used_json_file_paths>>
                  ELSE IF ~IsDigit(Strip(sidecar.timestamp))
                  THEN /\ error_log' = log_error(log1, Record(id, "invalid_timestamp", NameOf(matched_json_path), <<>>))
                       /\ UNCHANGED <<meta, used_json_file_paths>>
                  ELSE /\ error_log' = log1
                       /\ meta' = IF present
                                  THEN [meta EXCEPT ![id].written = Strip(sidecar.timestamp)]
                                  ELSE meta
                       /\ used_json_file_paths' = used_json_file_paths \cup {matched_json_path}
  /\ UNCHANGED <<script, run, media_file_paths, media_file_ids, matched_log,
                 unmatched_log, json_file_paths, prev, cfg, call, ret>>

\* The media loop is over: step 5 begins with sorted(used_json_file_paths)
RecoverLoopEnd ==
  /\ script = "recover_from_json" /\ pc = "loop" /\ idx > Len(media_file_paths)
  /\ pc' = "sidecars"
  /\ idx' = 1
  /\ UNCHANGED <<script, run, fs, meta, media_file_paths, media_file_ids,
                 matched_log, unmatched_log, error_log, json_file_paths,
                 used_json_file_paths, matched_json, moves, prev, cfg, call, ret>>

\* One iteration of the loop of step 5: os.replace of a used sidecar into done
RecoverSidecar ==
  /\ script = "recover_from_json" /\ pc = "sidecars"
  /\ idx <= Cardinality(used_json_file_paths)
  /\ \E replace_ok \in BOOLEAN :
       LET json_path == SortedPaths(used_json_file_paths)[idx]
           destination_path == MkPath(DONE_DIRECTORY, json_path.stem, json_path.ext)
       IN IF replace_ok /\ Exists(fs, json_path)
          THEN /\ fs' = Renamed(fs, json_path, destination_path)
               /\ moves' = Append(moves, Move(fs, json_path, destination_path, json_path.stem))
               /\ idx' = idx + 1
               /\ pc' = pc
          ELSE /\ pc' = "crashed"
               /\ UNCHANGED <<fs, moves, idx>>
  /\ UNCHANGED <<script, run, meta, media_file_paths, media_file_ids, matched_log,
                 unmatched_log, error_log, json_file_paths, used_json_file_paths,
                 matched_json, prev, cfg, call, ret>>

\* Step 5 is over: "Recovery complete" is printed
RecoverFinish ==
  /\ script = "recover_from_json" /\ pc = "sidecars"
  /\ idx > Cardinality(used_json_file_paths)
  /\ pc' = "done"
  /\ UNCHANGED <<script, run, fs, meta, media_file_paths, media_file_ids, idx,
                 matched_log, unmatched_log, error_log, json_file_paths,
                 used_json_file_paths, matched_json, moves, prev, cfg, call, ret>>

\* The initial tree: media files and sidecars; the identities of the sidecars
\* follow those of the media catalogue
InitRecover ==
  /\ script = "recover_from_json" /\ pc = "start" /\ run = 1
  /\ \E M \in Trees(RecoverMedia, MaxMedia), J \in Trees(RecoverSidecars, MaxSidecars) :
       fs = [p \in DOMAIN TreeFs(RecoverMedia, M) \cup DOMAIN TreeFs(RecoverSidecars, J) |->
               IF p \in DOMAIN TreeFs(RecoverMedia, M)
               THEN TreeFs(RecoverMedia, M)[p]
               ELSE Len(RecoverMedia) + TreeFs(RecoverSidecars, J)[p]]
  /\ meta = [i \in 1..(Len(RecoverMedia) + Len(RecoverSidecars)) |->
               IF i <= Len(RecoverMedia) THEN RecoverMedia[i].answer
               ELSE RecoverSidecars[i - Len(RecoverMedia)].answer]
  /\ media_file_paths = <<>> /\ media_file_ids = <<>> /\ idx = 1
  /\ matched_log = <<>> /\ unmatched_log = <<>> /\ error_log = <<>>
  /\ json_file_paths = <<>> /\ used_json_file_paths = {} /\ matched_json = {}
  /\ moves = <<>>
  /\ prev = [fs |-> <<>>, matched |-> {}]
  /\ cfg = NoConfig /\ call = NoCall /\ ret = NoCall

NextRecover ==
  \/ RecoverStart
  \/ RecoverFile
  \/ RecoverLoopEnd
  \/ RecoverSidecar
  \/ RecoverFinish

SpecRecover == InitRecover /\ [][NextRecover]_vars

(***************************************************************************)
(* organize_by_year_month.py                                               *)
(***************************************************************************)
OUTPUT_DIRECTORY == << <<"o", "u", "t", "p", "u", "t">> >>

\* calendar.month_name: index 0 is the empty text
MonthNames == <<
  <<>>,
  <<"J", "a", "n", "u", "a", "r", "y">>,
  <<"F", "e", "b", "r", "u", "a", "r", "y">>,
  <<"M", "a", "r", "c", "h">>,
  <<"A", "p", "r", "i", "l">>,
  <<"M", "a", "y">>,
  <<"J", "u", "n", "e">>,
  <<"J", "u", "l", "y">>,
  <<"A", "u", "g", "u", "s", "t">>,
  <<"S", "e", "p", "t", "e", "m", "b", "e", "r">>,
  <<"O", "c", "t", "o", "b", "e", "r">>,
  <<"N", "o", "v", "e", "m", "b", "e", "r">>,
  <<"D", "e", "c", "e", "m", "b", "e", "r">> >>

\* int(month_num) for two digits
TwoDigitValue(t) == 10 * (Ord(t[1]) - Ord("0")) + (Ord(t[2]) - Ord("0"))

\* YEAR_MONTH_PATTERN matches at position i of s: <<year, month>>, else <<>>
YearMonthAt(s, i) ==
  IF ~(i + 3 <= Len(s) /\ s[i] = "2" /\ s[i + 1] = "0" /\ DigitsAt(s, i + 2, 2)) THEN <<>>
  ELSE LET m0 == AfterOptional(s, i + 4, {"-", "_"}) IN
       IF m0 + 1 <= Len(s) /\ s[m0] \in {"0", "1"} /\ s[m0 + 1] \in Digits
       THEN <<SubSeq(s, i, i + 3), SubSeq(s, m0, m0 + 1)>>
       ELSE <<>>

\* YEAR_MONTH_PATTERN.search(stem): the leftmost match, <<>> for None
YEAR_MONTH_PATTERN(s) ==
  LET hits == {i \in 1..Len(s) : YearMonthAt(s, i) # <<>>} IN
  IF hits = {} THEN <<>>
  ELSE YearMonthAt(s, CHOOSE i \in hits : \A j \in hits : i <= j)

\* main: the destination directory of a match; ok is FALSE where
\* calendar.month_name[int(month_num)] raises IndexError
DestinationDirectory(year, month_num, by_month) ==
  IF ~by_month THEN [ok |-> TRUE, dir |-> OUTPUT_DIRECTORY \o <<year>>]
  ELSE IF TwoDigitValue(month_num) > 12 THEN [ok |-> FALSE, dir |-> <<>>]
  ELSE LET month_name == Lower(MonthNames[TwoDigitValue(month_num) + 1]) IN
       [ok |-> TRUE,
        dir |-> IF month_name = <<>> THEN OUTPUT_DIRECTORY \o <<year>>
                ELSE OUTPUT_DIRECTORY \o <<year, month_name>>]

RECURSIVE organize_FirstFree(_, _, _, _, _)
\* the "while True" loop of make_unique_path of organize_by_year_month.py
organize_FirstFree(fsys, dest_dir, base_name, extension, index) ==
  LET numbered == MkPath(dest_dir, Numbered(base_name, index), extension) IN
  IF ~Exists(fsys, numbered) THEN numbered
  ELSE organize_FirstFree(fsys, dest_dir, base_name, extension, index + 1)

\* make_unique_path of organize_by_year_month.py
organize_make_unique_path(fsys, dest_dir, base_name, extension, original_path) ==
  LET candidate == MkPath(dest_dir, base_name, extension) IN
  IF ~Exists(fsys, candidate)
     \/ (original_path # NoPath /\ SameFile(fsys, candidate, original_path))
  THEN candidate
  ELSE organize_FirstFree(fsys, dest_dir, base_name, extension, 1)

IGNORE_FILENAMES == {<<".", "d", "s", "_", "s", "t", "o", "r", "e">>, <<".", "t", "x", "t">>, <<".", "m", "d">>, <<".", "j", "s", "o", "n">>}

\* main: the media files gathered by rglob
OrganizeMediaPaths(fsys) ==
  {p \in DOMAIN fsys :
     /\ IsUnder(p.dir, TARGET_DIR)
     /\ Lower(NameOf(p)) \notin IGNORE_FILENAMES
     /\ Lower(p.ext) \in MEDIA_EXTENSIONS
     /\ ~IsUnder(p.dir, OUTPUT_DIRECTORY)}

Name_Month13 == <<"2", "0", "2", "3", "1", "3", "0", "1">>
Name_Month00 == <<"I", "M", "G", "_", "2", "0", "2", "3", "_", "0", "0", "0", "6">>
Name_Plain == <<"h", "o", "l", "i", "d", "a", "y">>
Year_2023 == <<"2", "0", "2", "3">>
Month_may == <<"m", "a", "y">>

\* The files a tree of organize_by_year_month is drawn from (the tool answers play
\* no part in this script)
OrganizeCatalogue == <<
  [path |-> MkPath(ALBUM_DIR, Stamp_Name, Ext_jpg), answer |-> ToolAnswer(FALSE, <<>>)],
  [path |-> MkPath(TARGET_DIR, Stamp_Name, Ext_JPG), answer |-> ToolAnswer(FALSE, <<>>)],
  [path |-> MkPath(OUTPUT_DIRECTORY \o <<Year_2023, Month_may>>, Stamp_Name, Ext_jpg), answer |-> ToolAnswer(FALSE, <<>>)],
  [path |-> MkPath(OUTPUT_DIRECTORY \o <<Year_2023>>, Stamp_Name, Ext_jpg), answer |-> ToolAnswer(FALSE, <<>>)],
  [path |-> MkPath(ALBUM_DIR, Name_Month13, Ext_jpg), answer |-> ToolAnswer(FALSE, <<>>)],
  [path |-> MkPath(ALBUM_DIR, Name_Month00, Ext_png), answer |-> ToolAnswer(FALSE, <<>>)],
  [path |-> MkPath(ALBUM_DIR, Name_Plain, Ext_jpg), answer |-> ToolAnswer(FALSE, <<>>)] >>

\* Module start-up (the prompt was answered in cfg.by_month; mkdir of logs, truncation
\* of the log) and the scan at the head of main; an empty scan returns at once
OrganizeStart ==
  /\ script = "organize_by_year_month" /\ pc = "start"
  /\ \E order \in WalkOrders(OrganizeMediaPaths(fs)) :
       /\ media_file_paths' = order
       /\ media_file_ids' = [i \in 1..Len(order) |-> fs[order[i]]]
       /\ pc' = IF order = <<>> THEN "done" ELSE "loop"
  /\ idx' = 1
  /\ error_log' = <<>>
  /\ UNCHANGED <<script, run, fs, meta, matched_log, unmatched_log, json_file_paths,
                 used_json_file_paths, matched_json, moves, prev, cfg, call, ret>>

\* One iteration of the loop of main.  mkdir_ok, probe_ok and move_ok say whether the
\* file system lets dest_dir.mkdir, the allocator's probes and shutil.move go through
OrganizeFile ==
  /\ script = "organize_by_year_month" /\ pc = "loop" /\ idx <= Len(media_file_paths)
  /\ \E mkdir_ok, probe_ok, move_ok \in BOOLEAN :
       LET media_file == media_file_paths[idx]
           present == Exists(fs, media_file)
           id == IF present THEN fs[media_file] ELSE 0
           stem == media_file.stem
           extension == Lower(media_file.ext)
           match == YEAR_MONTH_PATTERN(stem)
           dest == DestinationDirectory(match[1], match[2], cfg.by_month)
           new_path == organize_make_unique_path(fs, dest.dir, stem, extension, media_file)
       IN IF match = <<>>
          THEN /\ error_log' = log_error(error_log, Record(id, "no_year_month", NameOf(media_file), <<>>))
               /\ idx' = idx + 1
               /\ UNCHANGED <<pc, fs, moves>>
          ELSE IF ~dest.ok
          THEN /\ pc' = "index_error"
               /\ UNCHANGED <<fs, idx, error_log, moves>>
          ELSE IF ~mkdir_ok \/ ~probe_ok
          THEN /\ pc' = "crashed"
               /\ UNCHANGED <<fs, idx, error_log, moves>>
          ELSE IF move_ok /\ present
          THEN /\ fs' = Renamed(fs, media_file, new_path)
               /\ moves' = Append(moves, Move(fs, media_file, new_path, stem))
               /\ idx' = idx + 1
               /\ UNCHANGED <<pc, error_log>>
          ELSE /\ error_log' = log_error(error_log, Record(id, "move_failed", NameOf(media_file), <<>>))
               /\ idx' = idx + 1
               /\ UNCHANGED <<pc, fs, moves>>
  /\ UNCHANGED <<script, run, meta, media_file_paths, media_file_ids, matched_log,
                 unmatched_log, json_file_paths, used_json_file_paths, matched_json,
                 prev, cfg, call, ret>>

\* The loop of main is over: the summary lines are printed
OrganizeFinish ==
  /\ script = "organize_by_year_month" /\ pc = "loop" /\ idx > Len(media_file_paths)
  /\ pc' = "done"
  /\ UNCHANGED <<script, run, fs, meta, media_file_paths, media_file_ids, idx,
                 matched_log, unmatched_log, error_log, json_file_paths,
                 used_json_file_paths, matched_json, moves, prev, cfg, call, ret>>

InitOrganize ==
  /\ script = "organize_by_year_month" /\ pc = "start" /\ run = 1
  /\ \E S \in Trees(OrganizeCatalogue, MaxOrganize) : fs = TreeFs(OrganizeCatalogue, S)
  /\ meta = [i \in 1..Len(OrganizeCatalogue) |-> OrganizeCatalogue[i].answer]
  /\ media_file_paths = <<>> /\ media_file_ids = <<>> /\ idx = 1
  /\ matched_log = <<>> /\ unmatched_log = <<>> /\ error_log = <<>>
  /\ json_file_paths = <<>> /\ used_json_file_paths = {} /\ matched_json = {}
  /\ moves = <<>>
  /\ prev = [fs |-> <<>>, matched |-> {}]
  /\ \E by_month \in BOOLEAN : cfg = [by_month |-> by_month]
  /\ call = NoCall /\ ret = NoCall

NextOrganize ==
  \/ OrganizeStart
  \/ OrganizeFile
  \/ OrganizeFinish

SpecOrganize == InitOrganize /\ [][NextOrganize]_vars

(***************************************************************************)
(* The two scripts that use the allocator, one per behaviour.              *)
(***************************************************************************)
InitRenamers == InitProcessPhotos \/ InitOrganize

NextRenamers ==
  \/ ProcessPhotosStart
  \/ ProcessPhotosFile
  \/ ProcessPhotosFinish
  \/ ProcessPhotosAgain
  \/ OrganizeStart
  \/ OrganizeFile
  \/ OrganizeFinish

SpecRenamers == InitRenamers /\ [][NextRenamers]_vars

(***************************************************************************)
(* The three scripts, one per behaviour.                                   *)
(***************************************************************************)
Init == InitProcessPhotos \/ InitRecover \/ InitOrganize

Next ==
  \/ ProcessPhotosStart
  \/ ProcessPhotosFile
  \/ ProcessPhotosFinish
  \/ ProcessPhotosAgain
  \/ RecoverStart
  \/ RecoverFile
  \/ RecoverLoopEnd
  \/ RecoverSidecar
  \/ RecoverFinish
  \/ OrganizeStart
  \/ OrganizeFile
  \/ OrganizeFinish

Spec == Init /\ [][Next]_vars

(***************************************************************************)
(* Properties of the three scripts.                                        *)
(***************************************************************************)
CountOf(log, id) == Cardinality({i \in 1..Len(log) : log[i].id = id})

CountKind(log, id, kind) ==
  Cardinality({i \in 1..Len(log) : log[i].id = id /\ log[i].kind = kind})

\* The positions of media_file_paths that process_photos has worked on in this run:
\* those the loop went past, and the one an abort stopped on
Reached ==
  IF script = "process_photos" /\ pc \in {"loop", "done", "crashed"}
  THEN {k \in 1..Len(media_file_paths) : k < idx \/ (pc = "crashed" /\ k = idx)}
  ELSE {}

\* The positions the loop went past
Completed == {k \in Reached : k < idx}

\* file id was renamed in place / moved to the unmatched folder in this run
RenamedInPlace(id) ==
  \E i \in 1..Len(moves) : moves[i].id = id /\ moves[i].dst.dir = moves[i].src.dir

MovedToUnmatched(id) ==
  \E i \in 1..Len(moves) : moves[i].id = id /\ moves[i].dst.dir = UNMATCHED_DIR

\* C1 (as claimed): a failure of a file-system operation while one media file is
\* processed is caught and the loop goes on, so that no run of a script is ended by
\* such a failure before its summary.
C1_FailureNeverEndsTheRun == pc # "crashed"

\* C2 (as claimed): every media file process_photos has processed has exactly one
\* record across the matched, unmatched and error logs.
C2_ExactlyOneRecord ==
  \A k \in Completed :
    CountOf(matched_log, media_file_ids[k]) + CountOf(unmatched_log, media_file_ids[k])
      + CountOf(error_log, media_file_ids[k]) = 1

\* C2 (amended): every media file process_photos has worked on has at most one record
\* of its outcome, in the log of that outcome: a Matched record exactly when it was
\* renamed, an Unmatched record exactly when it was moved to the unmatched folder, an
\* Error record of the move exactly when that move failed and was caught, and none when
\* the file keeps its path without such a failure; the Error records of the EXIF
\* stage come in addition to that record.
C2_OneOutcomeRecord ==
  \A k \in Reached :
    LET id == media_file_ids[k]
        m == CountOf(matched_log, id)
        u == CountOf(unmatched_log, id)
        e == CountKind(error_log, id, "move_unmatched")
    IN /\ m + u + e <= 1
       /\ (m = 1) <=> RenamedInPlace(id)
       /\ (u = 1) <=> MovedToUnmatched(id)
       /\ (m + u = 0) => (Exists(fs, media_file_paths[k]) /\ fs[media_file_paths[k]] = id)
       /\ CountOf(error_log, id) - e
            = Len(ResolveBaseName(media_file_paths[k].stem, meta[id]).errors)

\* C2 (witness): a finished run in which one file has no record at all and another
\* has an Error record of the EXIF stage and a Matched record.
C2_Witness ==
  /\ script = "process_photos" /\ pc = "done"
  /\ \E k \in Completed :
       CountOf(matched_log, media_file_ids[k]) + CountOf(unmatched_log, media_file_ids[k])
         + CountOf(error_log, media_file_ids[k]) = 0
  /\ \E k \in Completed :
       /\ CountOf(matched_log, media_file_ids[k]) = 1
       /\ CountOf(error_log, media_file_ids[k]) = 1

\* Two moves of one run asked the allocator for the same name in the same directory
SameRequest(a, b) ==
  a.base = b.base /\ a.dst.dir = b.dst.dir /\ a.dst.ext = b.dst.ext

\* C4: in one run of process_photos or organize_by_year_month, two files that ask for
\* the same base name and extension in the same directory are given different
\* destination paths, neither move replaces a file, and both files are at their
\* destinations afterwards.
C4_DistinctDestinations ==
  script \in {"process_photos", "organize_by_year_month"} =>
    \A i, j \in 1..Len(moves) :
      (i < j /\ SameRequest(moves[i], moves[j])) =>
        /\ moves[i].dst # moves[j].dst
        /\ moves[i].over = 0 /\ moves[j].over = 0
        /\ Exists(fs, moves[i].dst) /\ fs[moves[i].dst] = moves[i].id
        /\ Exists(fs, moves[j].dst) /\ fs[moves[j].dst] = moves[j].id

\* C4 (witness): a finished run in which three files asked for the same name.
C4_Witness ==
  /\ script = "process_photos" /\ pc = "done"
  /\ \E i, j \in 1..Len(moves) : i < j /\ SameRequest(moves[i], moves[j])
  /\ \E p \in DOMAIN fs : p.stem = Numbered(Stamp_Name, 2)

\* The file at position k has neither an embedded timestamp nor a dated name
Unresolved(k) ==
  ResolveBaseName(media_file_paths[k].stem, meta[media_file_ids[k]]).stage = "none"

\* file id is in the unmatched folder under the stem it had, or that stem numbered
InUnmatched(id, stem) ==
  \E p \in DOMAIN fs :
    /\ fs[p] = id /\ p.dir = UNMATCHED_DIR
    /\ (p.stem = stem \/ \E n \in 1..Cardinality(DOMAIN fs) : p.stem = Numbered(stem, n))

\* C5 (as claimed): when process_photos ends, every media file with neither source is
\* in the unmatched folder, with an Unmatched record and no Matched record.
C5_UnresolvedEndsInUnmatched ==
  (script = "process_photos" /\ pc = "done") =>
    \A k \in Completed :
      Unresolved(k) =>
        /\ InUnmatched(media_file_ids[k], media_file_paths[k].stem)
        /\ CountOf(unmatched_log, media_file_ids[k]) = 1
        /\ CountOf(matched_log, media_file_ids[k]) = 0

\* C5 (amended): for every media file with neither source that process_photos works
\* on, no Matched record is logged, and either the move succeeds, and the file is in the
\* unmatched folder (same stem, numbered if needed) with one Unmatched record, or
\* it does not, and the file stays at its path with no Unmatched record (and, when the
\* loop went on, one Error record of the move).
C5_UnresolvedMovedOrLeft ==
  \A k \in Reached :
    Unresolved(k) =>
      LET id == media_file_ids[k] IN
      /\ CountOf(matched_log, id) = 0
      /\ \/ /\ InUnmatched(id, media_file_paths[k].stem)
            /\ CountOf(unmatched_log, id) = 1
            /\ CountKind(error_log, id, "move_unmatched") = 0
         \/ /\ Exists(fs, media_file_paths[k]) /\ fs[media_file_paths[k]] = id
            /\ CountOf(unmatched_log, id) = 0
            /\ (k \in Completed => CountKind(error_log, id, "move_unmatched") = 1)

\* C5 (witness): a finished run that moved two unresolved files of the same name to the
\* unmatched folder, the second under a numbered name.
C5_Witness ==
  /\ script = "process_photos" /\ pc = "done"
  /\ \E k \in Completed :
       /\ Unresolved(k)
       /\ \E p \in DOMAIN fs : /\ fs[p] = media_file_ids[k] /\ p.dir = UNMATCHED_DIR
                               /\ p.stem = Numbered(media_file_paths[k].stem, 1)
  /\ Len(unmatched_log) = 2

\* the path of file id in a file system
PathOf(fsys, id) == CHOOSE p \in DOMAIN fsys : fsys[p] = id

\* C6 (as claimed): a run of process_photos on the output of its earlier run leaves
\* every file that run renamed where it is, and logs no Matched record for it.
C6_RerunIsNoOp ==
  (script = "process_photos" /\ run > 1 /\ pc # "start") =>
    \A id \in prev.matched :
      /\ id \in FilesOf(fs)
      /\ PathOf(fs, id) = PathOf(prev.fs, id)
      /\ CountOf(matched_log, id) = 0

\* the identity a sidecar of the initial tree has
SidecarId(p) ==
  Len(RecoverMedia) + (CHOOSE i \in 1..Len(RecoverSidecars) : RecoverSidecars[i].path = p)

\* C7 (as claimed): recover_from_json moves no sidecar while media files are being
\* processed; when it is done, every sidecar matched to a media file has been moved
\* once into the done folder and is there, and every other sidecar is where it was.
C7_MatchedSidecarsConsolidated ==
  script = "recover_from_json" =>
    /\ pc = "loop" =>
         \A i \in 1..Len(json_file_paths) :
           Exists(fs, json_file_paths[i]) /\ fs[json_file_paths[i]] = SidecarId(json_file_paths[i])
    /\ pc = "done" =>
         \A i \in 1..Len(json_file_paths) :
           LET j == json_file_paths[i]
               d == MkPath(DONE_DIRECTORY, j.stem, j.ext)
           IN IF j \in matched_json
              THEN /\ Exists(fs, d) /\ fs[d] = SidecarId(j)
                   /\ Cardinality({n \in 1..Len(moves) : moves[n].id = SidecarId(j)}) = 1
              ELSE Exists(fs, j) /\ fs[j] = SidecarId(j)

(***************************************************************************)
(* The timestamp resolver of process_photos.py on its own: a file name and *)
(* an answer of the metadata tool are drawn, and the resolver is applied.  *)
(***************************************************************************)
ResolverStems == {
  <<"2", "0", "2", "2", "1", "1", "0", "3", "_", "1", "5", "3", "0", "0", "0">>,
  <<"2", "0", "2", "2", "-", "1", "1", "-", "0", "3", "_", "1", "5", "3", "0", "0", "0", "_", "v", "i", "d">>,
  <<"2", "0", "2", "2", ".", "1", "1", ".", "0", "3">>,
  <<"2", "0", "2", "2", "1", "1", "0", "3", "-", "1", "5", "3", "0", "0", "0">>,
  <<"1", "9", "9", "9", "1", "2", "3", "1">>,
  <<"2", "0", "2", "3", "_", "1", "3", "_", "4", "5">>,
  <<"I", "M", "G", "_", "2", "0", "2", "2", "1", "1", "0", "3">>,
  <<"2", "0", "2", "2", "1", "1", "0">>,
  <<"2", "0", "2", "2", "-", "1", "1", "-", "0", "3", "_", "1", "2", "-", "3", "4", "-", "5", "6">>,
  <<"2", "0", "2", "2", "1", "1", "0", "3", "1", "5", "3", "0">>,
  <<"2", "0", "2", "2", "-", "-", "1", "1", "0", "3">>,
  <<"h", "o", "l", "i", "d", "a", "y">>,
  <<>>,
  <<"2", "0", "2", "3", "-", "0", "5", "-", "0", "6", "_", "1", "2", "-", "3", "4", "-", "5", "6", "(", "1", ")">> }

ResolverAnswers == {
  ToolAnswer(FALSE, <<<<"2", "0", "2", "3", ":", "0", "5", ":", "0", "6", " ", "1", "2", ":", "3", "4", ":", "5", "6">>>>),
  ToolAnswer(FALSE, <<<<"2", "0", "2", "3", ":", "0", "5", ":", "0", "6", " ", "1", "2", ":", "3", "4", ":", "5", "6">>, <<"7">>>>),
  ToolAnswer(FALSE, <<<<"2", "0", "2", "3", ":", "0", "5", ":", "0", "6", " ", "1", "2", ":", "3", "4", ":", "5", "6">>, <<"7", "8">>>>),
  ToolAnswer(FALSE, <<<<"2", "0", "2", "3", ":", "0", "5", ":", "0", "6", " ", "1", "2", ":", "3", "4", ":", "5", "6">>, <<"7", "8", "9">>>>),
  ToolAnswer(FALSE, <<<<"2", "0", "2", "3", ":", "0", "5", ":", "0", "6", " ", "1", "2", ":", "3", "4", ":", "5", "6">>, <<"5", " ">>>>),
  ToolAnswer(FALSE, <<<<"0", "0", "0", "0", ":", "0", "0", ":", "0", "0", " ", "0", "0", ":", "0", "0", ":", "0", "0">>>>),
  ToolAnswer(FALSE, <<<<"0", "0", "0", "0", ":", "0", "0", ":", "0", "0", " ", "0", "0", ":", "0", "0", ":", "0", "0">>, <<"7">>>>),
  ToolAnswer(FALSE, <<<<"0", "0", "0", "0", ":", "0", "0", ":", "0", "0", " ", "0", "0", ":", "0", "0", ":", "0", "0">>, <<"7", "8">>>>),
  ToolAnswer(FALSE, <<<<"0", "0", "0", "0", ":", "0", "0", ":", "0", "0", " ", "0", "0", ":", "0", "0", ":", "0", "0">>, <<"7", "8", "9">>>>),
  ToolAnswer(FALSE, <<<<"0", "0", "0", "0", ":", "0", "0", ":", "0", "0", " ", "0", "0", ":", "0", "0", ":", "0", "0">>, <<"5", " ">>>>),
  ToolAnswer(FALSE, <<<<" ", "2", "0", "2", "3", ":", "0", "5", ":", "0", "6", " ", "1", "2", ":", "3", "4", ":", "5", "6">>, <<"1", "2">>>>),
  ToolAnswer(FALSE, <<<<"7", "8", "9">>>>),
  ToolAnswer(FALSE, <<<<"2", "0", "2", "3", ":", "0", "5", ":", "0", "6">>>>),
  ToolAnswer(FALSE, <<<<"2", "0", "2", "3", ":", "0", "5", ":", "0", "6", " ", " ", "1", "2", ":", "3", "4", ":", "5", "6">>>>),
  ToolAnswer(FALSE, <<<<>>>>),
  ToolAnswer(FALSE, <<>>),
  ToolAnswer(TRUE, <<>>) }

InitResolve ==
  /\ script = "resolve" /\ pc = "start" /\ run = 1
  /\ \E stem \in ResolverStems, answer \in ResolverAnswers :
       call = [fn |-> "resolve", stem |-> stem, answer |-> answer]
  /\ ret = NoCall
  /\ fs = <<>> /\ meta = <<>>
  /\ media_file_paths = <<>> /\ media_file_ids = <<>> /\ idx = 1
  /\ matched_log = <<>> /\ unmatched_log = <<>> /\ error_log = <<>>
  /\ json_file_paths = <<>> /\ used_json_file_paths = {} /\ matched_json = {}
  /\ moves = <<>>
  /\ prev = [fs |-> <<>>, matched |-> {}]
  /\ cfg = NoConfig

\* Steps 1 and 2 of the loop body of main, for the file drawn
ResolveCall ==
  /\ script = "resolve" /\ pc = "start"
  /\ ret' = ResolveBaseName(call.stem, call.answer)
  /\ pc' = "returned"
  /\ UNCHANGED <<script, run, fs, meta, media_file_paths, media_file_ids, idx,
                 matched_log, unmatched_log, error_log, json_file_paths,
                 used_json_file_paths, matched_json, moves, prev, cfg, call>>

SpecResolve == InitResolve /\ [][ResolveCall]_vars

\* t is a primary timestamp "YYYY:MM:DD HH:MM:SS"
IsExifStamp(t) ==
  /\ Len(t) = 19
  /\ \A i \in {1, 2, 3, 4, 6, 7, 9, 10, 12, 13, 15, 16, 18, 19} : t[i] \in Digits
  /\ \A i \in {5, 8, 14, 17} : t[i] = ":"
  /\ t[11] = " "

\* the metadata read of the call drawn returned a valid primary timestamp
ValidStampRead ==
  /\ ~call.answer.exif_fail
  /\ call.answer.exif_lines # <<>>
  /\ IsExifStamp(Strip(call.answer.exif_lines[1]))

\* the sub-second field of the call drawn, <<>> when there is none
SubSecondField ==
  IF Len(call.answer.exif_lines) > 1 THEN Strip(call.answer.exif_lines[2]) ELSE <<>>

\* "YYYY-MM-DD_HH-MM-SS" for a timestamp "YYYY:MM:DD HH:MM:SS"
StampAsName(t) ==
  [i \in 1..19 |-> IF i \in {5, 8, 14, 17} THEN "-" ELSE IF i = 11 THEN "_" ELSE t[i]]

\* C9: for a metadata read that returns a valid primary timestamp, the base name is
\* the timestamp as "YYYY-MM-DD_HH-MM-SS", followed by "-" and the first two characters
\* of the sub-second field (padded on the right with "0") exactly when there is such a
\* field, and by nothing otherwise.
C9_ExifBaseName ==
  (pc = "returned" /\ ValidStampRead) =>
    LET t == Strip(call.answer.exif_lines[1])
        sub == SubSecondField
    IN /\ ret.stage = "exif"
       /\ SubSeq(ret.name, 1, 19) = StampAsName(t)
       /\ (sub = <<>>) <=> (Len(ret.name) = 19)
       /\ sub # <<>> =>
            /\ Len(ret.name) = 22
            /\ ret.name[20] = "-"
            /\ ret.name[21] = sub[1]
            /\ ret.name[22] = (IF Len(sub) >= 2 THEN sub[2] ELSE "0")

\* C9 (witness): a read with a one-character sub-second field has been resolved.
C9_Witness ==
  /\ pc = "returned" /\ ValidStampRead /\ Len(SubSecondField) = 1
  /\ Len(ret.name) = 22

\* the file name stage was asked: the embedded stage gave no base name
FilenameStageAsked ==
  ExifBaseName(extract_exif_create_date(call.answer).date,
               extract_exif_create_date(call.answer).sub).name = <<>>

\* s is: 4 digits, a separators, 2 digits, b separators, 2 digits, and then whatever
DatedAs(s, a, b) ==
  /\ DigitsAt(s, 1, 4)
  /\ a = 1 => (Len(s) >= 5 /\ s[5] \in {"-", ".", "_"})
  /\ DigitsAt(s, 5 + a, 2)
  /\ b = 1 => (Len(s) >= 7 + a /\ s[7 + a] \in {"-", ".", "_"})
  /\ DigitsAt(s, 7 + a + b, 2)

\* after the day, which ends at position e, come c separators and 6 digits
TimedAs(s, e, c) ==
  /\ c = 1 => (Len(s) > e /\ s[e + 1] \in {"_", "-"})
  /\ DigitsAt(s, e + 1 + c, 6)

\* C10 (as claimed): the file name stage resolves a name only when the name starts
\* with a 4-digit year that begins with "20".
C10_YearBeginsWith20 ==
  (pc = "returned" /\ ret.stage = "filename") =>
    (Len(call.stem) >= 2 /\ call.stem[1] = "2" /\ call.stem[2] = "0")

\* C10 (amended): the file name stage resolves a name exactly when the name starts
\* with four digits (any year), an optional separator, two digits, an optional
\* separator and two digits; the base name is then those digits as YYYY-MM-DD, "_",
\* and the six digits of an optional HHMMSS block as HH-MM-SS, or 00-00-00 when there
\* is no such block; no component is range-checked and no sub-second suffix is added.
C10_FilenameStage ==
  (pc = "returned" /\ FilenameStageAsked) =>
    LET s == call.stem IN
    /\ (ret.stage = "filename") <=> (\E a, b \in {0, 1} : DatedAs(s, a, b))
    /\ ret.stage # "filename" => (ret.stage = "none" /\ ret.name = <<>>)
    /\ \A a, b \in {0, 1} :
         DatedAs(s, a, b) =>
           LET e == 8 + a + b IN
           /\ Len(ret.name) = 19
           /\ SubSeq(ret.name, 1, 11)
                = SubSeq(s, 1, 4) \o <<"-">> \o SubSeq(s, 5 + a, 6 + a) \o <<"-">>
                  \o SubSeq(s, 7 + a + b, e) \o <<"_">>
           /\ \A c \in {0, 1} :
                TimedAs(s, e, c) =>
                  SubSeq(ret.name, 12, 19)
                    = SubSeq(s, e + 1 + c, e + 2 + c) \o <<"-">>
                      \o SubSeq(s, e + 3 + c, e + 4 + c) \o <<"-">>
                      \o SubSeq(s, e + 5 + c, e + 6 + c)
           /\ (\A c \in {0, 1} : ~TimedAs(s, e, c)) =>
                SubSeq(ret.name, 12, 19) = <<"0", "0", "-", "0", "0", "-", "0", "0">>

\* C10 (witness): a name whose year does not begin with "20" has been resolved by
\* the file name stage.
C10_Witness ==
  /\ pc = "returned" /\ FilenameStageAsked /\ ret.stage = "filename"
  /\ call.stem[1] = "1"

(***************************************************************************)
(* The unique path allocator on its own: a directory content and a request *)
(* are drawn, and make_unique_path (both copies) is applied.  Here two     *)
(* paths may name the same file (a hard link).                             *)
(***************************************************************************)
AllocatorBase == <<"n">>

\* the paths that may exist when the allocator is called
AllocatorPaths ==
  {MkPath(ALBUM_DIR, AllocatorBase, Ext_jpg), MkPath(ALBUM_DIR, <<"o">>, Ext_jpg)}
  \cup {MkPath(ALBUM_DIR, Numbered(AllocatorBase, k), Ext_jpg) : k \in 1..MaxSuffix}

InitAllocator ==
  /\ script = "allocate" /\ pc = "start" /\ run = 1
  /\ \E P \in SUBSET AllocatorPaths :
       /\ fs \in [P -> 1..2]
       /\ \E original \in P \cup {NoPath} :
            call = [fn |-> "make_unique_path", fs |-> fs, dir |-> ALBUM_DIR,
                    base |-> AllocatorBase, ext |-> Ext_jpg, original |-> original]
  /\ ret = NoCall
  /\ meta = <<>>
  /\ media_file_paths = <<>> /\ media_file_ids = <<>> /\ idx = 1
  /\ matched_log = <<>> /\ unmatched_log = <<>> /\ error_log = <<>>
  /\ json_file_paths = <<>> /\ used_json_file_paths = {} /\ matched_json = {}
  /\ moves = <<>>
  /\ prev = [fs |-> <<>>, matched |-> {}]
  /\ cfg = NoConfig

\* One call of make_unique_path, of either script: it only reads the file system
AllocatorCall ==
  /\ script = "allocate" /\ pc = "start"
  /\ ret' = [process_photos |->
               make_unique_path(fs, call.dir, call.base, call.ext, call.original),
             organize |->
               organize_make_unique_path(fs, call.dir, call.base, call.ext, call.original)]
  /\ pc' = "returned"
  /\ UNCHANGED <<script, run, fs, meta, media_file_paths, media_file_ids, idx,
                 matched_log, unmatched_log, error_log, json_file_paths,
                 used_json_file_paths, matched_json, moves, prev, cfg, call>>

SpecAllocator == InitAllocator /\ [][AllocatorCall]_vars

\* path r is what the allocator is to return for the call drawn
AllocatedAsSpecified(r) ==
  LET plain == MkPath(call.dir, call.base, call.ext)
      numbered(k) == MkPath(call.dir, call.base \o <<"(">> \o Itoa(k) \o <<")">>, call.ext)
  IN /\ IF plain \notin DOMAIN call.fs
           \/ (call.original # NoPath /\ call.fs[plain] = call.fs[call.original])
        THEN r = plain
        ELSE \E k \in 1..(Cardinality(DOMAIN call.fs) + 1) :
               /\ r = numbered(k)
               /\ r \notin DOMAIN call.fs
               /\ \A j \in 1..(k - 1) : numbered(j) \in DOMAIN call.fs
     /\ r \in DOMAIN call.fs =>
          (call.original # NoPath /\ call.fs[r] = call.fs[call.original])

\* C3: make_unique_path returns directory/baseName.extension when that path does not
\* exist or is the same file as originalPath, and otherwise directory/baseName(k).extension
\* for the lowest k >= 1 that does not exist; the path returned names no existing file
\* other than the original, and the call leaves the file system as it was.
C3_AllocatorContract ==
  pc = "returned" =>
    /\ AllocatedAsSpecified(ret.process_photos)
    /\ AllocatedAsSpecified(ret.organize)
    /\ fs = call.fs

\* C3 (witness): the plain path and every numbered path up to MaxSuffix exist and are
\* other files than the original, and the allocator has returned the next number.
C3_Witness ==
  /\ pc = "returned"
  /\ call.original # NoPath
  /\ AllocatorPaths \subseteq DOMAIN call.fs
  /\ call.fs[MkPath(call.dir, call.base, call.ext)] # call.fs[call.original]
  /\ ret.process_photos = MkPath(call.dir, Numbered(call.base, MaxSuffix + 1), call.ext)

(***************************************************************************)
(* The configuration code at the top of each script: the environment and   *)
(* the arguments are drawn, and the module-level code up to main runs.     *)
(* A location is "" (not given), "gone" (no such directory) or "there".    *)
(***************************************************************************)
Locations == {"", "gone", "there"}

\* str(Path(text)): the empty text is the current directory
PathText(text) == IF text = "" THEN "." ELSE text

\* Path(text).exists(); the current directory exists
PathExists(text) == PathText(text) \in {".", "there"}

\* bool(text): os.getenv gives None for a variable that is not set, and None and ""
\* are both false
Truthy(text) == text # ""

\* bool(Path(text)): a Path object defines no truth value of its own, so it is true
PathTruthy(text) == TRUE

\* x or y
OrElse(x, y) == IF Truthy(x) THEN x ELSE y

\* What the module-level code did: the exit status ("none": main is entered), the
\* directories made and the log files truncated
Started(exit, made, truncated) == [exit |-> exit, made |-> made, truncated |-> truncated]

InitConfig ==
  /\ script = "config" /\ pc = "start" /\ run = 1
  /\ \E name \in {"process_photos", "recover_from_json", "organize_by_year_month"},
        et, at, eo, ao \in Locations :
       cfg = [by_month |-> FALSE, script |-> name, env_target |-> et, arg_target |-> at,
              env_output |-> eo, arg_output |-> ao]
  /\ call = NoCall /\ ret = NoCall
  /\ fs = <<>> /\ meta = <<>>
  /\ media_file_paths = <<>> /\ media_file_ids = <<>> /\ idx = 1
  /\ matched_log = <<>> /\ unmatched_log = <<>> /\ error_log = <<>>
  /\ json_file_paths = <<>> /\ used_json_file_paths = {} /\ matched_json = {}
  /\ moves = <<>>
  /\ prev = [fs |-> <<>>, matched |-> {}]

ConfigUnchanged ==
  UNCHANGED <<script, run, fs, meta, media_file_paths, media_file_ids, idx,
              matched_log, unmatched_log, error_log, json_file_paths,
              used_json_file_paths, matched_json, moves, prev, cfg, call>>

\* process_photos.py, lines 24 to 43
ProcessPhotosConfig ==
  /\ script = "config" /\ pc = "start" /\ cfg.script = "process_photos"
  /\ LET TARGET == OrElse(cfg.env_target, cfg.arg_target) IN
     IF ~PathTruthy(TARGET) \/ ~PathExists(TARGET)
     THEN /\ ret' = Started("1", {}, {}) /\ pc' = "exit"
     ELSE /\ ret' = Started("none",
                            {<<PathText(TARGET), "unmatched">>, <<PathText(TARGET), "logs">>},
                            {"matched.txt", "unmatched.txt", "process_errors.txt"})
          /\ pc' = "main"
  /\ ConfigUnchanged

\* recover_from_json.py, lines 21 to 41
RecoverConfig ==
  /\ script = "config" /\ pc = "start" /\ cfg.script = "recover_from_json"
  /\ LET TARGET_DIRECTORY == IF cfg.arg_target # "" /\ ~Truthy(cfg.env_target)
                             THEN cfg.arg_target ELSE cfg.env_target
     IN IF ~Truthy(TARGET_DIRECTORY)
        THEN /\ ret' = Started("1", {}, {}) /\ pc' = "exit"
        ELSE /\ ret' = Started("none",
                               {<<TARGET_DIRECTORY, "done">>, <<TARGET_DIRECTORY, "logs">>}
                                 \cup (IF TARGET_DIRECTORY = "gone" THEN {<<TARGET_DIRECTORY>>} ELSE {}),
                               {"recovered_log.txt"})
             /\ pc' = "main"
  /\ ConfigUnchanged

\* organize_by_year_month.py, lines 36 to 65
OrganizeConfig ==
  /\ script = "config" /\ pc = "start" /\ cfg.script = "organize_by_year_month"
  /\ LET TARGET == OrElse(cfg.env_target, cfg.arg_target)
         OUTPUT == OrElse(cfg.env_output, cfg.arg_output)
     IN IF ~PathTruthy(TARGET) \/ ~PathTruthy(OUTPUT)
        THEN /\ ret' = Started("1", {}, {}) /\ pc' = "exit"
        ELSE /\ ret' = Started("none",
                               {<<PathText(TARGET), "logs">>}
                                 \cup (IF ~PathExists(TARGET) THEN {<<PathText(TARGET)>>} ELSE {}),
                               {"organize_log.txt"})
             /\ pc' = "main"
  /\ ConfigUnchanged

NextConfig ==
  \/ ProcessPhotosConfig
  \/ RecoverConfig
  \/ OrganizeConfig

SpecConfig == InitConfig /\ [][NextConfig]_vars

\* the location a script needs is not given, or is no directory
BadConfiguration ==
  LET target == OrElse(cfg.env_target, cfg.arg_target)
      output == OrElse(cfg.env_output, cfg.arg_output)
  IN \/ target \in {"", "gone"}
     \/ cfg.script = "organize_by_year_month" /\ output = ""

\* C8 (as claimed): with a required location absent or invalid, every script exits
\* with a non-zero status before it makes a directory or truncates a file.
C8_BadConfigurationIsFatal ==
  (script = "config" /\ pc # "start" /\ BadConfiguration) =>
    (ret.exit = "1" /\ ret.made = {} /\ ret.truncated = {})

(***************************************************************************)
(* The sidecar matcher of recover_from_json.py on its own: a media file    *)
(* and the list of sidecar candidates, in the order of the scan, are drawn *)
(* and step 2 of the loop body is applied.                                 *)
(***************************************************************************)
MaxCandidates == 2

\* the media files the matcher is asked about
MatcherMedia == {
  MkPath(ALBUM_DIR, <<"i", "m", "g", "1">>, Ext_jpg),
  MkPath(ALBUM_DIR, <<"i", "m", "g", "1", "(", "1", ")">>, Ext_JPG),
  MkPath(ALBUM_DIR, <<"I", "M", "G", "_", "1", "2", "3", "4", "(", "1", ")">>, Ext_jpg),
  MkPath(ALBUM_DIR, <<"c", "l", "i", "p", "-", "e", "d", "i", "t", "e", "d">>, Ext_jpg),
  MkPath(ALBUM_DIR, <<"f", "u", "n", "a", "n", "i">>, Ext_gif),
  MkPath(ALBUM_DIR, <<"f", "u", "n", "a", "n", "i">>, Ext_jpg),
  MkPath(ALBUM_DIR, <<"(", "1", ")">>, Ext_jpg),
  MkPath(ALBUM_DIR, <<"p", "i", "c", "-", "e", "d", "i", "t", "e", "d", "(", "2", ")">>, Ext_png),
  MkPath(ALBUM_DIR, <<"l", "o", "n", "e">>, Ext_png) }

\* the sidecars the scan may have listed
MatcherSidecars == {
  MkPath(ALBUM_DIR, <<"I", "M", "G", "_", "1", "2", "3", "4">>, Ext_json),
  MkPath(ALBUM_DIR, <<"i", "m", "g", "1", ".", "j", "p", "g">>, Ext_json),
  MkPath(TARGET_DIR, <<"I", "M", "G", "1", "(", "1", ")", ".", "J", "P", "G">>, Ext_json),
  MkPath(ALBUM_DIR, <<"c", "l", "i", "p">>, Ext_json),
  MkPath(TARGET_DIR, <<"f", "u", "n", "a", "n">>, Ext_json),
  MkPath(ALBUM_DIR, <<"p", "i", "c">>, Ext_json),
  MkPath(ALBUM_DIR, <<"C", "l", "i", "p", "-", "E", "d", "i", "t", "e", "d", ".", "j", "p", "g">>, Ext_json) }

\* the lists json_file_paths can be: up to MaxCandidates sidecars, in any order
MatcherCandidates ==
  UNION {{c \in [1..n -> MatcherSidecars] : \A i, j \in 1..n : c[i] = c[j] => i = j} :
           n \in 0..MaxCandidates}

InitMatcher ==
  /\ script = "match" /\ pc = "start" /\ run = 1
  /\ \E media_file_path \in MatcherMedia, candidates \in MatcherCandidates :
       /\ call = [fn |-> "match", media |-> media_file_path, candidates |-> candidates]
       /\ json_file_paths = candidates
  /\ ret = NoCall
  /\ fs = <<>> /\ meta = <<>>
  /\ media_file_paths = <<>> /\ media_file_ids = <<>> /\ idx = 1
  /\ matched_log = <<>> /\ unmatched_log = <<>> /\ error_log = <<>>
  /\ used_json_file_paths = {} /\ matched_json = {}
  /\ moves = <<>>
  /\ prev = [fs |-> <<>>, matched |-> {}]
  /\ cfg = NoConfig

\* Step 2 of the loop body of main, for the media file drawn: json_file_paths is read
MatcherCall ==
  /\ script = "match" /\ pc = "start"
  /\ ret' = MatchSidecar(call.media, json_file_paths)
  /\ pc' = "returned"
  /\ UNCHANGED <<script, run, fs, meta, media_file_paths, media_file_ids, idx,
                 matched_log, unmatched_log, error_log, json_file_paths,
                 used_json_file_paths, matched_json, moves, prev, cfg, call>>

SpecMatcher == InitMatcher /\ [][MatcherCall]_vars

\* the names the strategies look for, in the order of the strategies
StrategyKeys(media) ==
  LET raw == Lower(media.stem)
      n == Len(raw)
  IN <<raw, StripTrailingParenthesis(raw)>>
     \o (IF EndsWith(raw, <<"-", "e", "d", "i", "t", "e", "d">>)
         THEN <<SubSeq(raw, 1, n - 7)>> ELSE <<>>)
     \o (IF Lower(media.ext) = <<".", "g", "i", "f">> /\ EndsWith(raw, <<"a", "n", "i">>)
         THEN <<SubSeq(raw, 1, n - 1)>> ELSE <<>>)

\* the positions of the candidates whose name contains key, whatever the case
HitsOf(key, candidates) ==
  {i \in 1..Len(candidates) : Contains(key, Lower(NameOf(candidates[i])))}

\* C11: the sidecar matcher tries raw base name, trailing parenthesis stripped,
\* "-edited" stripped and the "i" of a GIF's "ani" stripped, in this order; the first
\* strategy with a hit decides, its result is the first hit in the order of the
\* candidates, a matcher with no hit returns none, and the candidate list is the same
\* after the match as before it.
C11_FirstStrategyWithHitDecides ==
  (script = "match" /\ pc = "returned") =>
    LET keys == StrategyKeys(call.media)
        deciding == {s \in 1..Len(keys) : HitsOf(keys[s], call.candidates) # {}}
    IN /\ json_file_paths = call.candidates
       /\ IF deciding = {}
          THEN ret = NoPath
          ELSE LET s == CHOOSE t \in deciding : \A u \in deciding : t <= u
                   hits == HitsOf(keys[s], call.candidates)
               IN ret = call.candidates[CHOOSE i \in hits : \A j \in hits : i <= j]

\* C11 (witness): IMG_1234(1) has been matched to IMG_1234.json by the second strategy,
\* its raw name being in no candidate, with another candidate listed first.
C11_Witness ==
  /\ script = "match" /\ pc = "returned"
  /\ call.media.stem = <<"I", "M", "G", "_", "1", "2", "3", "4", "(", "1", ")">>
  /\ Len(call.candidates) = MaxCandidates
  /\ HitsOf(Lower(call.media.stem), call.candidates) = {}
  /\ ret = MkPath(ALBUM_DIR, <<"I", "M", "G", "_", "1", "2", "3", "4">>, Ext_json)
  /\ ret = call.candidates[Len(call.candidates)]

\* the name holds a year 20xx, then "-" or "_" or nothing, then a month 01 to 12
HasYearAndMonth(stem) ==
  \E i \in 1..Len(stem) :
    /\ i + 3 <= Len(stem) /\ stem[i] = "2" /\ stem[i + 1] = "0" /\ DigitsAt(stem, i + 2, 2)
    /\ \E m \in {i + 4, i + 5} :
         /\ m = i + 5 => stem[i + 4] \in {"-", "_"}
         /\ DigitsAt(stem, m, 2)
         /\ TwoDigitValue(SubSeq(stem, m, m + 1)) \in 1..12

\* the files organize_by_year_month has dealt with: those the loop has passed, and the
\* one on which the script ended
OrganizeHandled ==
  {k \in 1..Len(media_file_paths) :
     k < idx \/ (k = idx /\ pc = "index_error")}

\* C12 (as claimed): organize_by_year_month moves a file only when its name holds a
\* year 20xx followed, optionally after "-" or "_", by a month 01 to 12, and then to
\* OUTPUT_DIR/<year> or OUTPUT_DIR/<year>/<month name>; every other file, one with 00
\* or 13 to 19 after the year included, gets an error record and stays where it is.
C12_MovedOnlyWithMonth01To12 ==
  script = "organize_by_year_month" =>
    /\ \A n \in 1..Len(moves) :
         /\ HasYearAndMonth(moves[n].src.stem)
         /\ Len(moves[n].dst.dir) \in {Len(OUTPUT_DIRECTORY) + 1, Len(OUTPUT_DIRECTORY) + 2}
         /\ IsUnder(moves[n].dst.dir, OUTPUT_DIRECTORY)
    /\ \A k \in OrganizeHandled :
         ~HasYearAndMonth(media_file_paths[k].stem) =>
           /\ CountOf(error_log, media_file_ids[k]) = 1
           /\ Exists(fs, media_file_paths[k])
           /\ fs[media_file_paths[k]] = media_file_ids[k]

\* the first line the metadata tool printed for the call drawn, stripped; <<>> when
\* the read failed or printed nothing
EmbeddedStamp ==
  IF call.answer.exif_fail \/ call.answer.exif_lines = <<>> THEN <<>>
  ELSE Strip(call.answer.exif_lines[1])

\* t splits at blanks into exactly a date part and a time part
SplitsInDateAndTime(t) ==
  \E b \in 1..Len(t) : t[b] = " " /\ \A i \in 1..Len(t) : t[i] = " " => i = b

\* the embedded stage of the call drawn fails: nothing was read, or what was read
\* does not split
EmbeddedStageFails == EmbeddedStamp = <<>> \/ ~SplitsInDateAndTime(EmbeddedStamp)

\* the name of the call drawn begins with a date the filename stage reads
FilenameStageReads == \E a, b \in {0, 1} : DatedAs(call.stem, a, b)

Logged(kind) == \E i \in 1..Len(ret.errors) : ret.errors[i] = kind

\* C13: when the embedded stage of process_photos fails (the read fails or returns
\* nothing, or the timestamp does not split into a date and a time), the filename stage
\* decides and the file is unresolved only if that stage fails too; when the embedded
\* stage succeeds the name comes from it and not from the file name; a timestamp that
\* does not split logs a parse error, and a failed read a read error.
C13_FallThroughToFilenameStage ==
  (script = "resolve" /\ pc = "returned") =>
    /\ EmbeddedStageFails =>
         /\ ret.stage = (IF FilenameStageReads THEN "filename" ELSE "none")
         /\ ret.name = FilenameBaseName(call.stem)
         /\ (ret.stage = "none") <=> (ret.name = <<>>)
    /\ ~EmbeddedStageFails =>
         /\ ret.stage = "exif"
         /\ ret.name # <<>>
         /\ SubSeq(ret.name, 1, Len(EmbeddedStamp)) =
              [i \in 1..Len(EmbeddedStamp) |->
                 IF EmbeddedStamp[i] = " " THEN "_"
                 ELSE IF EmbeddedStamp[i] = ":" THEN "-" ELSE EmbeddedStamp[i]]
    /\ Logged("exif_parse") <=> (EmbeddedStamp # <<>> /\ ~SplitsInDateAndTime(EmbeddedStamp))
    /\ Logged("exif_read") <=> call.answer.exif_fail

\* C13 (witness): a timestamp that does not split was read for a file whose name
\* holds a date: the parse error was logged and the filename stage gave the name.
C13_Witness ==
  /\ script = "resolve" /\ pc = "returned"
  /\ EmbeddedStamp # <<>> /\ ~SplitsInDateAndTime(EmbeddedStamp)
  /\ FilenameStageReads
  /\ ret.stage = "filename" /\ ret.name # <<>>
  /\ Logged("exif_parse")

\* C14 (as claimed): no rename or move of recover_from_json, process_photos or
\* organize_by_year_month targets a path that holds another file, and every media file
\* the scan listed is still in the tree, so that no file is destroyed.
C14_NoFileDestroyed ==
  script \in {"recover_from_json", "process_photos", "organize_by_year_month"} =>
    /\ \A n \in 1..Len(moves) : moves[n].over = 0
    /\ \A k \in 1..Len(media_file_ids) : media_file_ids[k] \in FilesOf(fs)

====
